---- MODULE Spec2Model ----
(***************************************************************************)
(* A model of the multimedia backend of src/main.py and of the security    *)
(* headers middleware of src/security_middleware.py.                        *)
(*                                                                         *)
(* A request is served in three steps: Receive (the middleware's dispatch  *)
(* starts, the route's dependencies are solved: get_database creates a     *)
(* client, the PlayerScore body is validated), the route's handler (one    *)
(* action per handler, with its single store operation), and Respond (the  *)
(* finally block of get_database closes the client and dispatch adds the   *)
(* security headers).  Text that is inspected character by character       *)
(* (identifiers, file names, player names) is a sequence of one-character  *)
(* strings; messages are strings.                                          *)
(***************************************************************************)
EXTENDS Integers, Sequences, FiniteSets, TLC

VARIABLES
    scores,     \* collection db.scores:  ObjectId -> document
    sprites,    \* collection db.sprites: ObjectId -> document
    audio,      \* collection db.audio:   ObjectId -> document
    issued,     \* number of ObjectIds the store has generated
    csp,        \* SecurityHeadersMiddleware.csp
    clients,    \* the AsyncIOMotorClient objects that are open
    pc,         \* per request slot: "idle", "open", "responded", "done"
                \* (done: the response is complete and about to leave)
    req,        \* per request slot: the request being served
    resp,       \* per request slot: the response
    client,     \* per request slot: the client get_database created (0: none)
    calls,      \* per request slot: the store operations the request issued
    file_read,  \* per request slot: whether file.read() was awaited
    exc,        \* per request slot: the exception the handler's except clause caught
    log,        \* per request slot: the text the handler printed
    posted      \* history: the scores as posted, until an update or delete addresses them

vars == <<scores, sprites, audio, issued, csp, clients, pc, req, resp, client,
          calls, file_read, exc, log, posted>>

store == <<scores, sprites, audio>>

----------------------------------------------------------------------------
(* Bounds of the model *)

\* The number of documents the store creates in a run with one request at a time.
MaxInserts == 2

\* The number of documents the store creates in a run with two requests in flight.
MaxInsertsConc == 1

\* The request slots: requests in flight at the same time.
Slots == {"r1", "r2"}

----------------------------------------------------------------------------
(* Text *)

HexLower == <<"0","1","2","3","4","5","6","7","8","9","a","b","c","d","e","f">>
HexUpper == <<"0","1","2","3","4","5","6","7","8","9","A","B","C","D","E","F">>

Range(s) == {s[i] : i \in DOMAIN s}

IsHexDigit(c) == c \in Range(HexLower) \cup Range(HexUpper)

\* The value (0..15) of a hexadecimal digit, of either case.
HexValue(c) ==
    CHOOSE v \in 0..15 : HexLower[v + 1] = c \/ HexUpper[v + 1] = c

Repeat(c, n) == [i \in 1..n |-> c]

\* str.endswith(suffix)
endswith(s, suffix) ==
    /\ Len(suffix) <= Len(s)
    /\ SubSeq(s, Len(s) - Len(suffix) + 1, Len(s)) = suffix

\* str.endswith(tuple of suffixes)
endswith_any(s, suffixes) == \E x \in suffixes : endswith(s, x)

B64Alphabet ==
    <<"A","B","C","D","E","F","G","H","I","J","K","L","M","N","O","P",
      "Q","R","S","T","U","V","W","X","Y","Z","a","b","c","d","e","f",
      "g","h","i","j","k","l","m","n","o","p","q","r","s","t","u","v",
      "w","x","y","z","0","1","2","3","4","5","6","7","8","9","+","/">>

\* base64.b64encode(content).decode("utf-8"), on a sequence of bytes
RECURSIVE b64encode(_)
b64encode(b) ==
    IF Len(b) = 0 THEN <<>>
    ELSE IF Len(b) = 1 THEN
        << B64Alphabet[(b[1] \div 4) + 1],
           B64Alphabet[((b[1] % 4) * 16) + 1], "=", "=" >>
    ELSE IF Len(b) = 2 THEN
        << B64Alphabet[(b[1] \div 4) + 1],
           B64Alphabet[((b[1] % 4) * 16) + (b[2] \div 16) + 1],
           B64Alphabet[((b[2] % 16) * 4) + 1], "=" >>
    ELSE
        << B64Alphabet[(b[1] \div 4) + 1],
           B64Alphabet[((b[1] % 4) * 16) + (b[2] \div 16) + 1],
           B64Alphabet[((b[2] % 16) * 4) + (b[3] \div 64) + 1],
           B64Alphabet[(b[3] % 64) + 1] >>
        \o b64encode(SubSeq(b, 4, Len(b)))

----------------------------------------------------------------------------
(* Identifiers *)

\* The length of the hexadecimal text of an ObjectId.
OidHexLen == 24

\* ObjectId.is_valid(text): 24 hexadecimal digits.
is_valid(text) ==
    /\ Len(text) = OidHexLen
    /\ \A i \in 1..Len(text) : IsHexDigit(text[i])

\* ObjectId(text): the 12 bytes the text denotes, whatever the case of its digits.
ObjectId(text) ==
    [i \in 1..(Len(text) \div 2) |->
        (16 * HexValue(text[(2 * i) - 1])) + HexValue(text[2 * i])]

\* str(ObjectId): 24 lower-case hexadecimal digits.
StrOid(oid) ==
    [i \in 1..(2 * Len(oid)) |->
        IF i % 2 = 1 THEN HexLower[(oid[(i + 1) \div 2] \div 16) + 1]
                     ELSE HexLower[(oid[i \div 2] % 16) + 1]]

\* The n-th ObjectId the store generates.
MkOid(n) == [i \in 1..(OidHexLen \div 2) |-> IF i = OidHexLen \div 2 THEN n ELSE 171]

----------------------------------------------------------------------------
(* The inputs of the requests *)

\* Too short to be an ObjectId.
ShortId == <<"x", "y", "z">>

\* 24 characters, the last of them no hexadecimal digit.
NonHexId == [StrOid(MkOid(1)) EXCEPT ![OidHexLen] = "g"]

\* The first ObjectId of the store, written in upper case.
UpperId ==
    [i \in 1..OidHexLen |->
        LET c == StrOid(MkOid(1))[i] IN
        IF IsHexDigit(c) THEN HexUpper[HexValue(c) + 1] ELSE c]

IssuedIds == {StrOid(MkOid(n)) : n \in 1..MaxInserts}

IdStrings == {ShortId, NonHexId} \cup IssuedIds

NoId == <<>>

Payload(name, score) == [player_name |-> name, score |-> score]

\* The boundary cases of the PlayerScore schema and their neighbours.
Payloads ==
    { Payload(<<"A">>, -1), Payload(<<"A">>, 0), Payload(<<"A">>, 201),
      Payload(<<>>, 0), Payload(Repeat("n", 50), 200), Payload(Repeat("n", 51), 0) }

NoPayload == Payload(<<>>, 0)

Upload(filename, content) == [filename |-> filename, content |-> content]

Png == Upload(<<"a", ".", "p", "n", "g">>, <<77>>)
Ogg == Upload(<<"a", ".", "o", "g", "g">>, <<77>>)

\* The files sent to the sprite routes: the three extensions allowed, a .gif
\* and a name that ends with png but has no extension.
SpriteFiles ==
    { Png,
      Upload(<<"a", ".", "j", "p", "g">>, <<77, 97, 110>>),
      Upload(<<"a", ".", "j", "p", "e", "g">>, <<77, 97>>),
      Upload(<<"a", ".", "g", "i", "f">>, <<77>>),
      Upload(<<"p", "n", "g">>, <<77>>) }

\* The files sent to the audio routes: the three extensions allowed and a .png.
AudioFiles ==
    { Upload(<<"a", ".", "m", "p", "3">>, <<77>>),
      Upload(<<"a", ".", "w", "a", "v">>, <<77, 97, 110>>),
      Ogg,
      Png }

NoFile == Upload(<<>>, <<>>)

Request(method, path, id, score, file) ==
    [method |-> method, path |-> path, id |-> id, score |-> score, file |-> file]

NoRequest == Request("", "", NoId, NoPayload, NoFile)

\* The requests of the routes of the application, over the given inputs.
RequestsOver(ids, payloads, sprite_files, audio_files) ==
    {Request("GET", "/", NoId, NoPayload, NoFile)}
    \cup {Request(m, p, i, NoPayload, NoFile) :
            m \in {"GET", "DELETE"}, p \in {"/player_score", "/sprite", "/audio"},
            i \in ids}
    \cup {Request("POST", "/player_score", NoId, s, NoFile) : s \in payloads}
    \cup {Request("PUT", "/player_score", i, s, NoFile) : i \in ids, s \in payloads}
    \cup {Request("POST", "/upload_sprite", NoId, NoPayload, f) : f \in sprite_files}
    \cup {Request("POST", "/upload_audio", NoId, NoPayload, f) : f \in audio_files}
    \cup {Request("PUT", "/sprite", i, NoPayload, f) : i \in ids, f \in sprite_files}
    \cup {Request("PUT", "/audio", i, NoPayload, f) : i \in ids, f \in audio_files}

Requests == RequestsOver(IdStrings, Payloads, SpriteFiles, AudioFiles)

\* The core inputs: the identifier of the first document in upper case, a
\* valid and an invalid score, and two files, each valid for one kind of asset
\* and invalid for the other.
CoreRequests ==
    RequestsOver({UpperId}, {Payload(<<"A">>, 0), Payload(<<"A">>, 201)},
                 {Png, Ogg}, {Png, Ogg})

\* The inputs of the runs with two requests in flight.
ConcRequests ==
    RequestsOver({UpperId}, {Payload(<<"A">>, 0), Payload(<<"A">>, 201)},
                 {Png}, {Png})

\* What a store operation does: it succeeds, or it raises one of these.
NoFault == ""
StoreErrors == {"timed out", "connection refused"}

\* The outcomes of a store operation in the runs with one request at a time,
\* and in the runs with two.
Faults == {NoFault, "timed out"}
CoreFaults == {NoFault} \cup StoreErrors

----------------------------------------------------------------------------
(* The PlayerScore schema *)

\* A schema whose score bound is off by one (le=201).
PlayerScore_le201(p) ==
    /\ Len(p.player_name) >= 1
    /\ Len(p.player_name) <= 50
    /\ p.score >= 0
    /\ p.score <= 201

\* player_name: min_length=1, max_length=50; score: ge=0, le=200
PlayerScore(p) ==
    /\ Len(p.player_name) >= 1
    /\ Len(p.player_name) <= 50
    /\ p.score >= 0
    /\ p.score <= 200

\* A dump that loses the score.
model_dump_no_score(p) == [player_name |-> p.player_name, score |-> 0]

\* score.model_dump()
model_dump(p) == [player_name |-> p.player_name, score |-> p.score]

\* The routes whose handler takes a PlayerScore body.
TakesPlayerScore(q) == q.path = "/player_score" /\ q.method \in {"POST", "PUT"}

\* The routes whose handler depends on get_database.
DependsOnDatabase(q) == q.path # "/"

----------------------------------------------------------------------------
(* Exceptions and responses *)

HTTPException(status_code, detail) ==
    [type |-> "HTTPException", status_code |-> status_code, detail |-> detail]

\* An exception of the store layer.
StoreError(message) ==
    [type |-> "PyMongoError", status_code |-> 0, detail |-> message]

NoExc == [type |-> "", status_code |-> 0, detail |-> ""]

\* str(e)
str(e) ==
    IF e.type = "HTTPException"
    THEN ToString(e.status_code) \o ": " \o e.detail
    ELSE e.detail

\* traceback.format_exc()
format_exc(e) == "Traceback (most recent call last): " \o e.type \o ": " \o str(e)

JSONResponse(status, body) ==
    [status |-> status, body |-> body,
     headers |-> ("content-type" :> "application/json")]

\* The response the framework makes of an HTTPException.
http_exception_handler(e) == JSONResponse(e.status_code, [detail |-> e.detail])

\* The response the framework makes of a body that fails its schema.
request_validation_error == JSONResponse(422, [detail |-> "validation error"])

NoResponse == [status |-> 0, body |-> [detail |-> ""], headers |-> <<>>]

\* except Exception as e: raise HTTPException(500, f"{failure}: {str(e)}")
except_Exception(failure, e) == HTTPException(500, failure \o ": " \o str(e))

\* The result of a handler's try block: a returned body or a raised exception,
\* with the store operations issued and whether the file was read.
Return(body, ncalls, read) ==
    [ok |-> TRUE, body |-> body, exc |-> NoExc, calls |-> ncalls, read |-> read]

Raise(e, ncalls, read) ==
    [ok |-> FALSE, body |-> [detail |-> ""], exc |-> e, calls |-> ncalls, read |-> read]

----------------------------------------------------------------------------
(* The Content-Security-Policy *)

\* The CSP table: in order, each section with a string or a list of strings.
CSP ==
    << [section |-> "default-src", is_str |-> TRUE, content |-> "'self'"],
       [section |-> "img-src", is_str |-> FALSE, content |-> <<"*", "data:">>],
       [section |-> "connect-src", is_str |-> TRUE, content |-> "'self'"],
       [section |-> "script-src", is_str |-> FALSE,
        content |-> <<"'self'", "'unsafe-inline'">>],
       [section |-> "style-src", is_str |-> FALSE,
        content |-> <<"'self'", "'unsafe-inline'">>],
       [section |-> "script-src-elem", is_str |-> FALSE,
        content |-> <<"'self'", "'unsafe-inline'",
                      "https://cdn.jsdelivr.net/npm/swagger-ui-dist@5/swagger-ui-bundle.js">>],
       [section |-> "style-src-elem", is_str |-> FALSE,
        content |-> <<"https://cdn.jsdelivr.net/npm/swagger-ui-dist@5/swagger-ui.css">>] >>

\* sep.join(parts)
RECURSIVE join(_, _)
join(sep, parts) ==
    IF Len(parts) = 0 THEN ""
    ELSE IF Len(parts) = 1 THEN parts[1]
    ELSE parts[1] \o sep \o join(sep, Tail(parts))

\* parse_policy(policy), for a policy given as a table
parse_policy(policy) ==
    LET policies ==
            [i \in 1..Len(policy) |->
                LET content == IF policy[i].is_str THEN policy[i].content
                               ELSE join(" ", policy[i].content)
                IN policy[i].section \o " " \o content]
    IN join("; ", policies)

\* The headers dict of SecurityHeadersMiddleware.dispatch.
SecurityHeaders(with_csp) ==
    ("Content-Security-Policy" :> (IF ~with_csp THEN "" ELSE parse_policy(CSP)))
    @@ ("Cross-Origin-Opener-Policy" :> "same-origin")
    @@ ("Referrer-Policy" :> "strict-origin-when-cross-origin")
    @@ ("Strict-Transport-Security" :> "max-age=31556926; includeSubDomains")
    @@ ("X-Content-Type-Options" :> "nosniff")
    @@ ("X-Frame-Options" :> "DENY")
    @@ ("X-XSS-Protection" :> "1; mode=block")

\* response.headers.update(headers)
headers_update(old, new) == new @@ old

----------------------------------------------------------------------------
(* The operations of a collection *)

\* collection.insert_one(doc), the driver having generated the ObjectId
insert_one(coll, oid, doc) ==
    [x \in DOMAIN coll \cup {oid} |-> IF x = oid THEN doc ELSE coll[x]]

\* collection.find_one({"_id": oid})
find_one(coll, oid) ==
    IF oid \in DOMAIN coll THEN [found |-> TRUE, doc |-> coll[oid]]
    ELSE [found |-> FALSE, doc |-> <<>>]

\* An update with upsert=True: a document that is not there is created.
update_one_upsert(coll, oid, fields) ==
    IF oid \notin DOMAIN coll
    THEN [coll |-> [x \in DOMAIN coll \cup {oid} |-> IF x = oid THEN fields ELSE coll[x]],
          matched_count |-> 0, modified_count |-> 0]
    ELSE LET new == fields @@ coll[oid] IN
         [coll |-> [coll EXCEPT ![oid] = new], matched_count |-> 1,
          modified_count |-> IF new = coll[oid] THEN 0 ELSE 1]

\* collection.update_one({"_id": oid}, {"$set": fields}): modified_count counts
\* the matched document only if a field changed.
update_one(coll, oid, fields) ==
    IF oid \notin DOMAIN coll
    THEN [coll |-> coll, matched_count |-> 0, modified_count |-> 0]
    ELSE LET new == fields @@ coll[oid] IN
         [coll |-> [coll EXCEPT ![oid] = new], matched_count |-> 1,
          modified_count |-> IF new = coll[oid] THEN 0 ELSE 1]

\* collection.delete_one({"_id": oid})
delete_one(coll, oid) ==
    IF oid \in DOMAIN coll
    THEN [coll |-> [x \in DOMAIN coll \ {oid} |-> coll[x]], deleted_count |-> 1]
    ELSE [coll |-> coll, deleted_count |-> 0]

----------------------------------------------------------------------------
(* The state after construction *)

Empty == <<>>

\* The state a middleware built with this csp argument starts in.
InitWith(csp_values) ==
    /\ scores = Empty
    /\ sprites = Empty
    /\ audio = Empty
    /\ issued = 0
    /\ csp \in csp_values
    /\ clients = {}
    /\ pc = [r \in Slots |-> "idle"]
    /\ req = [r \in Slots |-> NoRequest]
    /\ resp = [r \in Slots |-> NoResponse]
    /\ client = [r \in Slots |-> 0]
    /\ calls = [r \in Slots |-> 0]
    /\ file_read = [r \in Slots |-> FALSE]
    /\ exc = [r \in Slots |-> NoExc]
    /\ log = [r \in Slots |-> ""]
    /\ posted = Empty

\* app.add_middleware(SecurityHeadersMiddleware): csp has its default, True.
Init == InitWith({TRUE})

\* The middleware built with either value of csp.
InitAnyCsp == InitWith(BOOLEAN)

----------------------------------------------------------------------------
(* The connection provider *)

\* A client object that is none of those open or still referred to.
NewClient ==
    CHOOSE n \in 1..(Cardinality(Slots) + 1) :
        n \notin clients \cup {client[x] : x \in Slots}

\* get_database, up to its yield: a new client for each request.

get_database_open(r, q) ==
    IF DependsOnDatabase(q)
    THEN /\ client' = [client EXCEPT ![r] = NewClient]
         /\ clients' = clients \cup {NewClient}
    ELSE /\ client' = [client EXCEPT ![r] = 0]
         /\ UNCHANGED clients

\* A close that is not in a finally block: it is skipped when the handler raised.
get_database_close_no_finally(r) ==
    clients' = IF resp[r].status = 200 THEN clients \ {client[r]} ELSE clients

\* get_database, after its yield: finally: client.close()
get_database_close(r) == clients' = clients \ {client[r]}

----------------------------------------------------------------------------
(* A request arrives *)

\* The request is routed and the dependencies of its handler are solved: the
\* client is created and the body validated; a body that fails the schema is
\* answered without the handler being called.
Receive(r, q) ==
    /\ pc[r] = "idle"
    /\ req' = [req EXCEPT ![r] = q]
    /\ get_database_open(r, q)
    /\ IF TakesPlayerScore(q) /\ ~PlayerScore(q.score)
       THEN /\ resp' = [resp EXCEPT ![r] = request_validation_error]
            /\ pc' = [pc EXCEPT ![r] = "responded"]
       ELSE /\ resp' = [resp EXCEPT ![r] = NoResponse]
            /\ pc' = [pc EXCEPT ![r] = "open"]
    /\ UNCHANGED <<store, issued, csp, calls, file_read, exc, log, posted>>

\* The handler of this method and path is to run for the request of slot r.
Routed(r, method, path) ==
    /\ pc[r] = "open"
    /\ req[r].method = method
    /\ req[r].path = path

\* What a handler leaves behind, t being the result of its try block: the body
\* it returned, or the HTTPException its except clause raised, having printed
\* the exception and the traceback.
Settle(r, t, failure, logline) ==
    /\ pc' = [pc EXCEPT ![r] = "responded"]
    /\ calls' = [calls EXCEPT ![r] = t.calls]
    /\ file_read' = [file_read EXCEPT ![r] = t.read]
    /\ exc' = [exc EXCEPT ![r] = t.exc]
    /\ log' = [log EXCEPT ![r] =
                 IF t.ok THEN ""
                 ELSE logline \o ": " \o str(t.exc) \o "\n" \o format_exc(t.exc)]
    /\ resp' = [resp EXCEPT ![r] =
                 IF t.ok THEN JSONResponse(200, t.body)
                 ELSE http_exception_handler(except_Exception(failure, t.exc))]
    /\ UNCHANGED <<req, client, clients, csp>>

\* A handler that raises before its try block: nothing is caught or printed.
Reject(r, e) ==
    /\ pc' = [pc EXCEPT ![r] = "responded"]
    /\ resp' = [resp EXCEPT ![r] = http_exception_handler(e)]
    /\ UNCHANGED <<req, client, clients, csp, calls, file_read, exc, log>>

----------------------------------------------------------------------------
(* GET *)

root(r) ==
    /\ Routed(r, "GET", "/")
    /\ pc' = [pc EXCEPT ![r] = "responded"]
    /\ resp' = [resp EXCEPT ![r] = JSONResponse(200, [message |-> "Hello World"])]
    /\ UNCHANGED <<req, client, clients, csp, calls, file_read, exc, log>>
    /\ UNCHANGED <<store, issued, posted>>

try_get_player_score(player_id, fault) ==
    IF ~is_valid(player_id)
    THEN Raise(HTTPException(400, "Invalid Id"), 0, FALSE)
    ELSE IF fault # NoFault THEN Raise(StoreError(fault), 1, FALSE)
    ELSE LET score_doc == find_one(scores, ObjectId(player_id)) IN
         IF score_doc.found
         THEN Return([player_name |-> score_doc.doc.player_name,
                      score |-> score_doc.doc.score], 1, FALSE)
         ELSE Raise(HTTPException(404, "Player not found"), 1, FALSE)

get_player_score(r, faults) ==
    /\ Routed(r, "GET", "/player_score")
    /\ \E fault \in faults :
         Settle(r, try_get_player_score(req[r].id, fault),
                "Failed to retrieve player score", "Error retrieving player score")
    /\ UNCHANGED <<store, issued, posted>>

try_get_asset(coll, id, fault, missing) ==
    IF ~is_valid(id)
    THEN Raise(HTTPException(400, "Invalid Id"), 0, FALSE)
    ELSE IF fault # NoFault THEN Raise(StoreError(fault), 1, FALSE)
    ELSE LET found_doc == find_one(coll, ObjectId(id)) IN
         IF found_doc.found
         THEN Return([filename |-> found_doc.doc.filename,
                      content |-> b64encode(found_doc.doc.content)], 1, FALSE)
         ELSE Raise(HTTPException(404, missing), 1, FALSE)

try_get_sprite(sprite_id, fault) ==
    try_get_asset(sprites, sprite_id, fault, "Sprite not found")

get_sprite(r, faults) ==
    /\ Routed(r, "GET", "/sprite")
    /\ \E fault \in faults :
         Settle(r, try_get_sprite(req[r].id, fault),
                "Failed to retrieve sprite", "Error retrieving sprite")
    /\ UNCHANGED <<store, issued, posted>>

try_get_audio(audio_id, fault) ==
    try_get_asset(audio, audio_id, fault, "Audio not found")

get_audio(r, faults) ==
    /\ Routed(r, "GET", "/audio")
    /\ \E fault \in faults :
         Settle(r, try_get_audio(req[r].id, fault),
                "Failed to retrieve audio", "Error retrieving audio")
    /\ UNCHANGED <<store, issued, posted>>

----------------------------------------------------------------------------
(* POST *)

\* The result of a try block that writes: its result and the collection after it.
Outcome(t, coll) == [t |-> t, coll |-> coll]

\* The suffixes written without their dot.
SpriteSuffixes_no_dot ==
    { <<"p", "n", "g">>, <<"j", "p", "g">>, <<"j", "p", "e", "g">> }

SpriteSuffixes ==
    { <<".", "p", "n", "g">>, <<".", "j", "p", "g">>, <<".", "j", "p", "e", "g">> }

AudioSuffixes ==
    { <<".", "m", "p", "3">>, <<".", "w", "a", "v">>, <<".", "o", "g", "g">> }

InvalidSprite == HTTPException(400, "Invalid file type. Only PNG and JPG are allowed.")
InvalidAudio == HTTPException(400, "Invalid file type. File must be an audio file!")

\* The store generates ObjectIds as long as the bound of the run allows.
CanInsert(fault, cap) == fault = NoFault => issued < cap

Drop(f, x) == [y \in DOMAIN f \ {x} |-> f[y]]

try_upload(coll, file, fault, message) ==
    IF fault # NoFault THEN Outcome(Raise(StoreError(fault), 1, TRUE), coll)
    ELSE LET content == file.content
             doc == [filename |-> file.filename, content |-> content]
             inserted_id == MkOid(issued + 1)
         IN Outcome(Return([message |-> message, id |-> StrOid(inserted_id)], 1, TRUE),
                    insert_one(coll, inserted_id, doc))

upload_sprite(r, faults, cap) ==
    /\ Routed(r, "POST", "/upload_sprite")
    /\ IF ~endswith_any(req[r].file.filename, SpriteSuffixes)
       THEN /\ Reject(r, InvalidSprite)
            /\ UNCHANGED <<store, issued>>
       ELSE \E fault \in faults :
              LET o == try_upload(sprites, req[r].file, fault, "Sprite uploaded") IN
              /\ CanInsert(fault, cap)
              /\ Settle(r, o.t, "Failed to upload sprite", "Error recording score")
              /\ sprites' = o.coll
              /\ issued' = IF o.t.ok THEN issued + 1 ELSE issued
              /\ UNCHANGED <<scores, audio>>
    /\ UNCHANGED posted

upload_audio(r, faults, cap) ==
    /\ Routed(r, "POST", "/upload_audio")
    /\ IF ~endswith_any(req[r].file.filename, AudioSuffixes)
       THEN /\ Reject(r, InvalidAudio)
            /\ UNCHANGED <<store, issued>>
       ELSE \E fault \in faults :
              LET o == try_upload(audio, req[r].file, fault, "Audio file uploaded") IN
              /\ CanInsert(fault, cap)
              /\ Settle(r, o.t, "Failed to record score", "Error recording score")
              /\ audio' = o.coll
              /\ issued' = IF o.t.ok THEN issued + 1 ELSE issued
              /\ UNCHANGED <<scores, sprites>>
    /\ UNCHANGED posted

try_add_score(score, fault) ==
    IF fault # NoFault THEN Outcome(Raise(StoreError(fault), 1, FALSE), scores)
    ELSE LET score_doc == model_dump(score)
             inserted_id == MkOid(issued + 1)
         IN Outcome(Return([message |-> "Score recorded", id |-> StrOid(inserted_id)],
                           1, FALSE),
                    insert_one(scores, inserted_id, score_doc))

add_score(r, faults, cap) ==
    /\ Routed(r, "POST", "/player_score")
    /\ \E fault \in faults :
         LET o == try_add_score(req[r].score, fault) IN
         /\ CanInsert(fault, cap)
         /\ Settle(r, o.t, "Failed to record score", "Error recording score")
         /\ scores' = o.coll
         /\ issued' = IF o.t.ok THEN issued + 1 ELSE issued
         /\ posted' = IF o.t.ok THEN insert_one(posted, MkOid(issued + 1), req[r].score)
                      ELSE posted
    /\ UNCHANGED <<sprites, audio>>

----------------------------------------------------------------------------
(* PUT *)

try_update_player_score(player_id, score, fault) ==
    IF ~is_valid(player_id)
    THEN Outcome(Raise(HTTPException(400, "Invalid Id"), 0, FALSE), scores)
    ELSE IF fault # NoFault THEN Outcome(Raise(StoreError(fault), 1, FALSE), scores)
    ELSE LET result == update_one(scores, ObjectId(player_id), model_dump(score)) IN
         IF result.modified_count = 1
         THEN Outcome(Return([message |-> "Player score updated", id |-> player_id],
                             1, FALSE), result.coll)
         ELSE Outcome(Raise(HTTPException(404, "Player not found"), 1, FALSE),
                      result.coll)

update_player_score(r, faults) ==
    /\ Routed(r, "PUT", "/player_score")
    /\ \E fault \in faults :
         LET o == try_update_player_score(req[r].id, req[r].score, fault) IN
         /\ Settle(r, o.t, "Failed to update player score", "Error updating player score")
         /\ scores' = o.coll
    /\ posted' = IF is_valid(req[r].id) THEN Drop(posted, ObjectId(req[r].id)) ELSE posted
    /\ UNCHANGED <<sprites, audio, issued>>

try_update_asset(coll, id, file, fault, message, missing) ==
    IF ~is_valid(id)
    THEN Outcome(Raise(HTTPException(400, "Invalid Id"), 0, FALSE), coll)
    ELSE IF fault # NoFault THEN Outcome(Raise(StoreError(fault), 1, TRUE), coll)
    ELSE LET content == file.content
             result == update_one(coll, ObjectId(id),
                                  [filename |-> file.filename, content |-> content])
         IN IF result.modified_count = 1
            THEN Outcome(Return([message |-> message, id |-> id], 1, TRUE), result.coll)
            ELSE Outcome(Raise(HTTPException(404, missing), 1, TRUE), result.coll)

update_sprite(r, faults) ==
    /\ Routed(r, "PUT", "/sprite")
    /\ IF ~endswith_any(req[r].file.filename, SpriteSuffixes)
       THEN /\ Reject(r, InvalidSprite)
            /\ UNCHANGED store
       ELSE \E fault \in faults :
              LET o == try_update_asset(sprites, req[r].id, req[r].file, fault,
                                        "Sprite updated", "Sprite not found") IN
              /\ Settle(r, o.t, "Failed to update sprite", "Error updating sprite")
              /\ sprites' = o.coll
              /\ UNCHANGED <<scores, audio>>
    /\ UNCHANGED <<issued, posted>>

update_audio(r, faults) ==
    /\ Routed(r, "PUT", "/audio")
    /\ IF ~endswith_any(req[r].file.filename, AudioSuffixes)
       THEN /\ Reject(r, InvalidAudio)
            /\ UNCHANGED store
       ELSE \E fault \in faults :
              LET o == try_update_asset(audio, req[r].id, req[r].file, fault,
                                        "Audio updated", "Audio not found") IN
              /\ Settle(r, o.t, "Failed to update audio", "Error updating audio")
              /\ audio' = o.coll
              /\ UNCHANGED <<scores, sprites>>
    /\ UNCHANGED <<issued, posted>>

----------------------------------------------------------------------------
(* DELETE *)

try_delete(coll, id, fault, message, missing) ==
    IF ~is_valid(id)
    THEN Outcome(Raise(HTTPException(400, "Invalid Id"), 0, FALSE), coll)
    ELSE IF fault # NoFault THEN Outcome(Raise(StoreError(fault), 1, FALSE), coll)
    ELSE LET result == delete_one(coll, ObjectId(id)) IN
         IF result.deleted_count = 1
         THEN Outcome(Return([message |-> message, id |-> id], 1, FALSE), result.coll)
         ELSE Outcome(Raise(HTTPException(404, missing), 1, FALSE), result.coll)

delete_audio(r, faults) ==
    /\ Routed(r, "DELETE", "/audio")
    /\ \E fault \in faults :
         LET o == try_delete(audio, req[r].id, fault, "Audio deleted", "Audio not found") IN
         /\ Settle(r, o.t, "Failed to delete audio", "Error deleting audio")
         /\ audio' = o.coll
    /\ UNCHANGED <<scores, sprites, issued, posted>>

delete_sprite(r, faults) ==
    /\ Routed(r, "DELETE", "/sprite")
    /\ \E fault \in faults :
         LET o == try_delete(sprites, req[r].id, fault, "Sprite deleted",
                             "Sprite not found") IN
         /\ Settle(r, o.t, "Failed to delete sprite", "Error deleting sprite")
         /\ sprites' = o.coll
    /\ UNCHANGED <<scores, audio, issued, posted>>

delete_player_score(r, faults) ==
    /\ Routed(r, "DELETE", "/player_score")
    /\ \E fault \in faults :
         LET o == try_delete(scores, req[r].id, fault, "Player score deleted",
                             "Player score not found") IN
         /\ Settle(r, o.t, "Failed to delete player score", "Error deleting player score")
         /\ scores' = o.coll
    /\ posted' = IF is_valid(req[r].id) THEN Drop(posted, ObjectId(req[r].id)) ELSE posted
    /\ UNCHANGED <<sprites, audio, issued>>

----------------------------------------------------------------------------
(* The response leaves *)

\* A dispatch that leaves the error responses as they are.
dispatch_success_only(response) ==
    IF response.status >= 400 THEN response
    ELSE [response EXCEPT !.headers = headers_update(@, SecurityHeaders(csp))]

\* SecurityHeadersMiddleware.dispatch, after call_next
dispatch(response) ==
    [response EXCEPT !.headers = headers_update(@, SecurityHeaders(csp))]

\* The dependency is torn down and the middleware sends the response.
Respond(r) ==
    /\ pc[r] = "responded"
    /\ get_database_close(r)
    /\ resp' = [resp EXCEPT ![r] = dispatch(@)]
    /\ pc' = [pc EXCEPT ![r] = "done"]
    /\ UNCHANGED <<store, issued, csp, req, client, calls, file_read, exc, log,
                   posted>>

\* dispatch returns the response: the request is over and its slot is free.
Leave(r) ==
    /\ pc[r] = "done"
    /\ pc' = [pc EXCEPT ![r] = "idle"]
    /\ req' = [req EXCEPT ![r] = NoRequest]
    /\ resp' = [resp EXCEPT ![r] = NoResponse]
    /\ client' = [client EXCEPT ![r] = 0]
    /\ calls' = [calls EXCEPT ![r] = 0]
    /\ file_read' = [file_read EXCEPT ![r] = FALSE]
    /\ exc' = [exc EXCEPT ![r] = NoExc]
    /\ log' = [log EXCEPT ![r] = ""]
    /\ UNCHANGED <<store, issued, csp, clients, posted>>

----------------------------------------------------------------------------
(* The specifications *)

Handler(r, faults, cap) ==
    \/ root(r)
    \/ get_player_score(r, faults)
    \/ get_sprite(r, faults)
    \/ get_audio(r, faults)
    \/ upload_sprite(r, faults, cap)
    \/ upload_audio(r, faults, cap)
    \/ add_score(r, faults, cap)
    \/ update_player_score(r, faults)
    \/ update_sprite(r, faults)
    \/ update_audio(r, faults)
    \/ delete_audio(r, faults)
    \/ delete_sprite(r, faults)
    \/ delete_player_score(r, faults)

\* One request at a time, over all the inputs.
Next ==
    \/ \E q \in Requests : Receive("r1", q)
    \/ Handler("r1", Faults, MaxInserts)
    \/ Respond("r1")
    \/ Leave("r1")

Spec == Init /\ [][Next]_vars

\* One request at a time, over the core inputs, the middleware built with
\* either value of csp.
NextCsp ==
    \/ \E q \in CoreRequests : Receive("r1", q)
    \/ Handler("r1", CoreFaults, MaxInserts)
    \/ Respond("r1")
    \/ Leave("r1")

SpecCsp == InitAnyCsp /\ [][NextCsp]_vars

\* Two requests in flight.
NextConc ==
    \E r \in Slots :
        \/ \E q \in ConcRequests : Receive(r, q)
        \/ Handler(r, CoreFaults, MaxInsertsConc)
        \/ Respond(r)
        \/ Leave(r)

SpecConc == Init /\ [][NextConc]_vars

----------------------------------------------------------------------------
(* Vocabulary of the properties *)

\* The handler (or the validation of the body) has produced the response.
Answered(r) == pc[r] \in {"responded", "done"}

\* The step is the run of the handler of slot r.
HandlerStep(r) == pc[r] = "open" /\ pc'[r] = "responded"

\* The routes that address a document by identifier.
ById(q) ==
    /\ q.method \in {"GET", "PUT", "DELETE"}
    /\ q.path \in {"/player_score", "/sprite", "/audio"}

\* The collection a route addresses.
Collection(path) ==
    CASE path \in {"/player_score"} -> scores
      [] path \in {"/sprite", "/upload_sprite"} -> sprites
      [] path \in {"/audio", "/upload_audio"} -> audio

\* The extension of a file name: the text after its last dot, if it has a dot.
HasDot(name) == \E i \in 1..Len(name) : name[i] = "."
LastDot(name) == CHOOSE i \in 1..Len(name) : name[i] = "." /\ \A j \in (i + 1)..Len(name) : name[j] # "."
Extension(name) == IF HasDot(name) THEN SubSeq(name, LastDot(name) + 1, Len(name)) ELSE <<>>

SpriteExtensions == { <<"p", "n", "g">>, <<"j", "p", "g">>, <<"j", "p", "e", "g">> }
AudioExtensions == { <<"m", "p", "3">>, <<"w", "a", "v">>, <<"o", "g", "g">> }

\* The extensions allowed on a route that takes a file.
AllowedExtensions(path) ==
    IF path \in {"/sprite", "/upload_sprite"} THEN SpriteExtensions ELSE AudioExtensions

TakesFile(q) ==
    \/ q.method = "POST" /\ q.path \in {"/upload_sprite", "/upload_audio"}
    \/ q.method = "PUT" /\ q.path \in {"/sprite", "/audio"}

\* The body of the request is one its route accepts: the identifier is all
\* that can be wrong with it.
BodyAccepted(q) ==
    /\ TakesPlayerScore(q) => PlayerScore(q.score)
    /\ TakesFile(q) => Extension(q.file.filename) \in AllowedExtensions(q.path)

\* The store operation of the request raised.
StoreFailed(e) == e.type = "PyMongoError"

\* The ObjectId was generated by the store and its document is in no
\* collection: the document has been deleted.
WasDeleted(oid) ==
    /\ \E n \in 1..issued : oid = MkOid(n)
    /\ oid \notin (DOMAIN scores \cup DOMAIN sprites \cup DOMAIN audio)

\* The documents that differ between two values of a collection.
Diff(before, after) ==
    {x \in DOMAIN before \cup DOMAIN after :
        \/ x \notin DOMAIN before
        \/ x \notin DOMAIN after
        \/ before[x] # after[x]}

----------------------------------------------------------------------------
(* C1 *)

\* C1: on every read, update and delete endpoint, an identifier for which
\* ObjectId.is_valid is false is answered with status 400 and detail
\* "Invalid Id", and no store operation is issued.
C1_InvalidIdIs400 ==
    \A r \in Slots :
        (/\ Answered(r)
         /\ ById(req[r])
         /\ BodyAccepted(req[r])
         /\ ~is_valid(req[r].id))
        => /\ resp[r].status = 400
           /\ resp[r].body = [detail |-> "Invalid Id"]
           /\ calls[r] = 0

----------------------------------------------------------------------------
(* C2 *)

\* C2: on every read, update and delete endpoint, a well-formed identifier
\* that matches no document of the collection is answered with status 404
\* (the store operation itself not failing).
C2_AbsentIdIs404 ==
    [][\A r \in Slots :
          (/\ HandlerStep(r)
           /\ ById(req[r])
           /\ BodyAccepted(req[r])
           /\ is_valid(req[r].id)
           /\ ObjectId(req[r].id) \notin DOMAIN Collection(req[r].path)
           /\ ~StoreFailed(exc'[r]))
          => resp'[r].status = 404]_vars

----------------------------------------------------------------------------
(* C3 *)

\* C3: a successful POST /player_score returns the identifier of a score, and
\* a GET /player_score with the identifier of a posted score, no update or
\* delete having addressed it since, returns the player_name and the score
\* that were posted.
C3_RoundTrip ==
    \A r \in Slots :
        /\ (/\ Answered(r)
            /\ req[r].method = "POST" /\ req[r].path = "/player_score"
            /\ resp[r].status = 200)
           => /\ is_valid(resp[r].body.id)
              /\ ObjectId(resp[r].body.id) \in DOMAIN posted
              /\ posted[ObjectId(resp[r].body.id)] = req[r].score
        /\ (/\ Answered(r)
            /\ req[r].method = "GET" /\ req[r].path = "/player_score"
            /\ is_valid(req[r].id)
            /\ ObjectId(req[r].id) \in DOMAIN posted
            /\ ~StoreFailed(exc[r]))
           => /\ resp[r].status = 200
              /\ resp[r].body.player_name = posted[ObjectId(req[r].id)].player_name
              /\ resp[r].body.score = posted[ObjectId(req[r].id)].score

\* A posted score of 200 has been read back.
C3_Witness ==
    \E r \in Slots :
        /\ pc[r] = "done"
        /\ req[r].method = "GET" /\ req[r].path = "/player_score"
        /\ is_valid(req[r].id)
        /\ ObjectId(req[r].id) \in DOMAIN posted
        /\ resp[r].status = 200
        /\ resp[r].body.score = 200

----------------------------------------------------------------------------
(* C4 *)

\* C4: a delete of a document that exists succeeds and leaves it unreadable,
\* and a delete of a document that has been deleted is answered not-found
\* (404), for each of the three kinds of document.
C4_DeleteTwice ==
    [][\A r \in Slots :
          (/\ HandlerStep(r)
           /\ req[r].method = "DELETE"
           /\ is_valid(req[r].id)
           /\ ~StoreFailed(exc'[r]))
          => /\ ObjectId(req[r].id) \in DOMAIN Collection(req[r].path)
                => /\ resp'[r].status = 200
                   /\ ObjectId(req[r].id) \notin DOMAIN Collection(req[r].path)'
             /\ WasDeleted(ObjectId(req[r].id))
                => resp'[r].status = 404]_vars

----------------------------------------------------------------------------
(* C5 *)

\* The constraints of a score, as the specification states them.
InBounds(p) ==
    /\ Len(p.player_name) \in 1..50
    /\ p.score \in 0..200

\* C5: the handler of a create or an update of a score is called exactly
\* when player_name has 1 to 50 characters and score is in 0..200; any other
\* payload is answered with a client error and no store operation, and every
\* document of the scores collection satisfies both constraints.
C5_ScoreBounds ==
    /\ \A r \in Slots :
          (pc[r] # "idle" /\ TakesPlayerScore(req[r]))
          => IF InBounds(req[r].score)
             THEN pc[r] = "open" \/ resp[r].status # 422
             ELSE /\ Answered(r)
                  /\ resp[r].status \in 400..499
                  /\ calls[r] = 0
    /\ \A oid \in DOMAIN scores : InBounds(scores[oid])

\* A name of 50 characters with a score of 200 is stored, and a name of 51
\* characters has been rejected.
C5_Witness ==
    /\ \E oid \in DOMAIN scores :
          Len(scores[oid].player_name) = 50 /\ scores[oid].score = 200
    /\ \E r \in Slots :
          /\ pc[r] = "done"
          /\ TakesPlayerScore(req[r])
          /\ Len(req[r].score.player_name) = 51
          /\ resp[r].status = 422

----------------------------------------------------------------------------
(* C6 *)

\* The response is the rejection of the file type.
FileTypeRejected(response) ==
    /\ response.status = 400
    /\ response.body \in {[detail |-> InvalidSprite.detail], [detail |-> InvalidAudio.detail]}

\* C6: an upload or update of a sprite or of an audio file whose extension is
\* not among those allowed for it is answered with status 400, the file not
\* read and no store operation issued; a file name with an allowed extension
\* is not rejected for its type.
C6_FileTypeGate ==
    \A r \in Slots :
        (Answered(r) /\ TakesFile(req[r]))
        => IF Extension(req[r].file.filename) \in AllowedExtensions(req[r].path)
           THEN ~FileTypeRejected(resp[r])
           ELSE /\ FileTypeRejected(resp[r])
                /\ ~file_read[r]
                /\ calls[r] = 0

\* A .gif has been rejected on a sprite route while a sprite is stored.
C6_Witness ==
    /\ \E r \in Slots :
          /\ pc[r] = "done"
          /\ req[r].path \in {"/sprite", "/upload_sprite"}
          /\ TakesFile(req[r])
          /\ Extension(req[r].file.filename) = <<"g", "i", "f">>
          /\ resp[r].status = 400
    /\ \E oid \in DOMAIN sprites : Extension(sprites[oid].filename) = <<"j", "p", "e", "g">>

----------------------------------------------------------------------------
(* C7 *)

FixedHeaders ==
    { "Cross-Origin-Opener-Policy", "Referrer-Policy", "Strict-Transport-Security",
      "X-Content-Type-Options", "X-Frame-Options", "X-XSS-Protection" }

----------------------------------------------------------------------------
(* C8 *)

\* The request of the slot is in flight and has been given a client.
HoldsClient(r) == pc[r] \in {"open", "responded"} /\ DependsOnDatabase(req[r])

\* C8: a request holds an open client of its own while it is in flight, and
\* when it has finished, however it has finished, its client is closed: the
\* clients that are open are those of the requests in flight.
C8_ConnectionReleased ==
    /\ \A r \in Slots : HoldsClient(r) => client[r] \in clients
    /\ \A r \in Slots : pc[r] \in {"done", "idle"} => client[r] \notin clients
    /\ \A r1, r2 \in Slots :
          (r1 # r2 /\ HoldsClient(r1) /\ HoldsClient(r2)) => client[r1] # client[r2]
    /\ clients = {client[r] : r \in {x \in Slots : HoldsClient(x)}}

\* One request has ended in a server error while another is in flight.
C8_Witness ==
    \E r1, r2 \in Slots :
        /\ pc[r1] = "done"
        /\ resp[r1].status = 500
        /\ client[r1] # 0
        /\ HoldsClient(r2)

----------------------------------------------------------------------------
(* C9 *)

\* C9: two requests to the same endpoint whose store operations fail are
\* answered with status 500 and the same body, whatever the two exceptions.
C9_GenericMessage ==
    \A r1, r2 \in Slots :
        (/\ Answered(r1) /\ Answered(r2)
         /\ req[r1].method = req[r2].method
         /\ req[r1].path = req[r2].path
         /\ StoreFailed(exc[r1]) /\ StoreFailed(exc[r2]))
        => /\ resp[r1].status = 500
           /\ resp[r2].status = 500
           /\ resp[r1].body = resp[r2].body

----------------------------------------------------------------------------
(* C10 *)

\* The documents a step changes, over the three collections.
Changed ==
    Cardinality(Diff(scores, scores')) + Cardinality(Diff(sprites, sprites'))
    + Cardinality(Diff(audio, audio'))

\* The step is a handler's successful create, update or delete.
SuccessfulMutation(r) ==
    /\ HandlerStep(r)
    /\ req[r].method \in {"POST", "PUT", "DELETE"}
    /\ resp'[r].status = 200

\* C10: a successful create, update or delete changes one document, in the
\* collection of its route, and nothing else; every other step (a read, a
\* request that ends in an error) leaves the three collections as they are.
C10_OneDocument ==
    [][IF \E r \in Slots : SuccessfulMutation(r)
       THEN \E r \in Slots :
              /\ SuccessfulMutation(r)
              /\ Changed = 1
              /\ Cardinality(Diff(Collection(req[r].path), Collection(req[r].path)')) = 1
       ELSE store' = store]_vars

\* An update has succeeded while another document is stored.
C10_Witness ==
    /\ \E r \in Slots :
          /\ pc[r] = "done"
          /\ req[r].method = "PUT"
          /\ resp[r].status = 200
    /\ Cardinality(DOMAIN scores) + Cardinality(DOMAIN sprites)
       + Cardinality(DOMAIN audio) = 2

----------------------------------------------------------------------------
(* C11 *)

\* The fields an update request gives for the document it addresses.
GivenFields(q) ==
    IF q.path = "/player_score"
    THEN [player_name |-> q.score.player_name, score |-> q.score.score]
    ELSE [filename |-> q.file.filename, content |-> q.file.content]

\* C11: an update with a valid identifier and a valid payload, the store not
\* failing, reports success exactly when the addressed document exists and
\* the given fields change it, the document then holding the given fields;
\* in every other case (no such document, or none modified) it reports
\* not-found (404); and it never adds a document to the collection nor
\* removes one, so no identifier changes.
C11_Update ==
    [][\A r \in Slots :
          (/\ HandlerStep(r)
           /\ req[r].method = "PUT"
           /\ BodyAccepted(req[r])
           /\ is_valid(req[r].id)
           /\ ~StoreFailed(exc'[r]))
          => LET oid == ObjectId(req[r].id)
                 before == Collection(req[r].path)
                 after == Collection(req[r].path)'
                 given == GivenFields(req[r])
             IN /\ DOMAIN after = DOMAIN before
                /\ IF oid \in DOMAIN before /\ before[oid] # given
                   THEN /\ resp'[r].status = 200
                        /\ after[oid] = given
                   ELSE resp'[r].status = 404]_vars

====
